---- MODULE Spec2Model ----
(***************************************************************************)
(* Model of the App component of src/index.tsx: the session state held in  *)
(* React state hooks, the event handlers that change it, the asynchronous  *)
(* call to the imageCompression collaborator, and the browser's registry   *)
(* of object URLs (the preview handles).                                   *)
(*                                                                         *)
(* A handler runs to completion and React applies all its state updates in *)
(* one batch (createRoot), so a handler is one atomic action; the part of  *)
(* handleCompress after the await is a second action (Resolve / Reject).   *)
(* A handler is reachable only through the element that carries it, and an *)
(* element exists only in the view selected by appState (lines 278-282).   *)
(*                                                                         *)
(* Numbers: maxSizeMB is kept in tenths of a megabyte and initialQuality   *)
(* in hundredths, so that 0.1 and customQuality / 100 are integers.        *)
(***************************************************************************)
EXTENDS Integers, Sequences, FiniteSets, TLC

VARIABLES
    originalFile,        \* useState(null), line 28
    compressedFile,      \* useState(null), line 29
    originalImageUrl,    \* useState(''),   line 30
    compressedImageUrl,  \* useState(''),   line 31
    compressionLevel,    \* useState('Medium'), line 33
    customQuality,       \* useState(70),   line 34
    isCompressing,       \* useState(false), line 36
    error,               \* useState(''),   line 37
    appState,            \* useState('upload'), line 38
    pending,             \* imageCompression calls awaited at line 85
    blobUrls,            \* the browser's object-URL store (URL.createObjectURL)
    lastDownload,        \* the file save made by link.click(), line 104
    lastEvent            \* the handler or continuation that ran last

session == <<originalFile, compressedFile, originalImageUrl, compressedImageUrl,
             compressionLevel, customQuality, isCompressing, error, appState>>

vars == <<originalFile, compressedFile, originalImageUrl, compressedImageUrl,
          compressionLevel, customQuality, isCompressing, error, appState,
          pending, blobUrls, lastDownload, lastEvent>>

----------------------------------------------------------------------------
(* Bounds *)

\* Object URLs created in one run of the model.
MaxUrls == 4

----------------------------------------------------------------------------
(* Values *)

\* null / undefined
Null == [null |-> TRUE]

\* the empty string of useState('') for the two URLs
NoUrl == 0

\* the empty string of useState('') for error
NoError == ""

ValidationMessage == "Please upload a valid JPG, PNG, or WebP image."

CompressionFailureMessage ==
    "Failed to compress image. It might be too small or in an unsupported format."

\* the array literal of line 48
AcceptedTypes == {"image/jpeg", "image/png", "image/webp"}

\* the array literal of line 175
Levels == {"Low", "Medium", "High", "Custom"}

\* event.target.files[0]: a File, or undefined when the list is empty
FileInputs ==
    { [name |-> "photo.jpg", type |-> "image/jpeg",      size |-> 2097152],
      [name |-> "logo.png",  type |-> "image/png",       size |-> 150000],
      [name |-> "tiny.webp", type |-> "image/webp",      size |-> 200],
      [name |-> "anim.gif",  type |-> "image/gif",       size |-> 4096],
      [name |-> "notes.pdf", type |-> "application/pdf", size |-> 2097152],
      Null }

\* positions of the range input (min 1, max 100), lines 195-201
SliderValues == {1, 35, 100}

\* sizes of the payload the collaborator may return
OutSizes == {199, 201, 150000}

----------------------------------------------------------------------------
(* Object URLs *)

\* URL.createObjectURL(blob): a fresh URL, registered in the store
createObjectURL(store, blob) ==
    [url |-> Len(store) + 1, store |-> Append(store, [blob |-> blob, revoked |-> 0])]

\* URL.revokeObjectURL(url): releases the URL; nothing to do for a URL that
\* is not in the store (the empty string)
revokeObjectURL(store, url) ==
    IF url \in DOMAIN store
    THEN [store EXCEPT ![url].revoked = @ + 1]
    ELSE store

----------------------------------------------------------------------------
(* Initial state: the useState initialisers of lines 28-38 *)

Init ==
    /\ originalFile = Null
    /\ compressedFile = Null
    /\ originalImageUrl = NoUrl
    /\ compressedImageUrl = NoUrl
    /\ compressionLevel = "Medium"
    /\ customQuality = 70
    /\ isCompressing = FALSE
    /\ error = NoError
    /\ appState = "upload"
    /\ pending = <<>>
    /\ blobUrls = <<>>
    /\ lastDownload = <<>>
    /\ lastEvent = [op |-> "init"]

----------------------------------------------------------------------------
(* File selection: the file input of the upload view, lines 144-150 *)

\* acceptsFile with the test of line 48 loosened to any image type
acceptsFile_anyImage(file) ==
    file # Null /\ file.type \in (AcceptedTypes \cup {"image/gif"})

\* the condition of line 48
acceptsFile(file) ==
    file # Null /\ file.type \in AcceptedTypes

\* handleFileChange without setError('') (line 51)
handleFileChange_keepsError(file) ==
    /\ appState = "upload"
    /\ lastEvent' = [op |-> "fileChange", file |-> file]
    /\ IF acceptsFile(file)
       THEN /\ Len(blobUrls) + 2 <= MaxUrls
            /\ LET c == createObjectURL(blobUrls, file)
               IN  /\ originalFile' = file
                   /\ originalImageUrl' = c.url
                   /\ blobUrls' = c.store
            /\ appState' = "compressing"
            /\ UNCHANGED <<compressedFile, compressedImageUrl, compressionLevel,
                           customQuality, isCompressing, error, pending,
                           lastDownload>>
       ELSE /\ error' = ValidationMessage
            /\ UNCHANGED <<originalFile, compressedFile, originalImageUrl,
                           compressedImageUrl, compressionLevel, customQuality,
                           isCompressing, appState, pending, blobUrls,
                           lastDownload>>

\* handleFileChange without setOriginalFile(file) (line 49)
handleFileChange_forgetsFile(file) ==
    /\ appState = "upload"
    /\ lastEvent' = [op |-> "fileChange", file |-> file]
    /\ IF acceptsFile(file)
       THEN /\ Len(blobUrls) + 2 <= MaxUrls
            /\ LET c == createObjectURL(blobUrls, file)
               IN  /\ originalImageUrl' = c.url
                   /\ blobUrls' = c.store
            /\ error' = NoError
            /\ appState' = "compressing"
            /\ UNCHANGED <<originalFile, compressedFile, compressedImageUrl,
                           compressionLevel, customQuality, isCompressing,
                           pending, lastDownload>>
       ELSE /\ error' = ValidationMessage
            /\ UNCHANGED <<originalFile, compressedFile, originalImageUrl,
                           compressedImageUrl, compressionLevel, customQuality,
                           isCompressing, appState, pending, blobUrls,
                           lastDownload>>

handleFileChange(file) ==
    /\ appState = "upload"
    /\ lastEvent' = [op |-> "fileChange", file |-> file]
    /\ IF acceptsFile(file)
       THEN /\ Len(blobUrls) + 2 <= MaxUrls
            /\ LET c == createObjectURL(blobUrls, file)
               IN  /\ originalFile' = file
                   /\ originalImageUrl' = c.url
                   /\ blobUrls' = c.store
            /\ error' = NoError
            /\ appState' = "compressing"
            /\ UNCHANGED <<compressedFile, compressedImageUrl, compressionLevel,
                           customQuality, isCompressing, pending, lastDownload>>
       ELSE /\ error' = ValidationMessage
            /\ UNCHANGED <<originalFile, compressedFile, originalImageUrl,
                           compressedImageUrl, compressionLevel, customQuality,
                           isCompressing, appState, pending, blobUrls,
                           lastDownload>>

----------------------------------------------------------------------------
(* Compression settings: the buttons and the slider of the compressing view *)

\* setCompressionLevel that also re-enables the compress button
setCompressionLevel_reenables(level) ==
    /\ appState = "compressing"
    /\ compressionLevel' = level
    /\ isCompressing' = FALSE
    /\ lastEvent' = [op |-> "setCompressionLevel"]
    /\ UNCHANGED <<originalFile, compressedFile, originalImageUrl,
                   compressedImageUrl, customQuality, error,
                   appState, pending, blobUrls, lastDownload>>

\* onClick of a level button, line 178
setCompressionLevel(level) ==
    /\ appState = "compressing"
    /\ compressionLevel' = level
    /\ lastEvent' = [op |-> "setCompressionLevel"]
    /\ UNCHANGED <<originalFile, compressedFile, originalImageUrl,
                   compressedImageUrl, customQuality, isCompressing, error,
                   appState, pending, blobUrls, lastDownload>>

\* onChange of the range input, line 200; the input is rendered only while
\* compressionLevel is 'Custom' (line 187) and its value is a whole number of
\* 1..100, which parseInt(value, 10) returns
setCustomQuality(value) ==
    /\ appState = "compressing"
    /\ compressionLevel = "Custom"
    /\ customQuality' = value
    /\ lastEvent' = [op |-> "setCustomQuality"]
    /\ UNCHANGED <<originalFile, compressedFile, originalImageUrl,
                   compressedImageUrl, compressionLevel, isCompressing, error,
                   appState, pending, blobUrls, lastDownload>>

\* getCompressionOptions whose default branch is joined to 'Low' instead of
\* 'Medium'
getCompressionOptions_defaultLow(level, quality) ==
    CASE level = "High"   -> [maxSizeMB |-> 1,  initialQuality |-> 40]
      [] level = "Custom" -> [maxSizeMB |-> 20, initialQuality |-> quality]
      [] level = "Medium" -> [maxSizeMB |-> 5,  initialQuality |-> 60]
      [] OTHER            -> [maxSizeMB |-> 10, initialQuality |-> 80]

\* the switch of lines 59-69; maxSizeMB in tenths, initialQuality in hundredths
getCompressionOptions(level, quality) ==
    CASE level = "Low"    -> [maxSizeMB |-> 10, initialQuality |-> 80]
      [] level = "High"   -> [maxSizeMB |-> 1,  initialQuality |-> 40]
      [] level = "Custom" -> [maxSizeMB |-> 20, initialQuality |-> quality]
      [] OTHER            -> [maxSizeMB |-> 5,  initialQuality |-> 60]

----------------------------------------------------------------------------
(* Compression: the compress button, handleCompress and its continuations *)

\* the compress button without its disabled attribute
compressButtonNeverDisabled ==
    FALSE

\* disabled={isCompressing}, line 208: a disabled button dispatches no click
compressButtonDisabled ==
    isCompressing

\* lines 78-82; onProgress only logs
compressionCallOptions ==
    LET o == getCompressionOptions(compressionLevel, customQuality)
    IN  [maxSizeMB |-> o.maxSizeMB, initialQuality |-> o.initialQuality,
         useWebWorker |-> TRUE]

\* lines 72-85, up to the await
handleCompress ==
    /\ appState = "compressing"
    /\ IF compressButtonDisabled
       THEN /\ lastEvent' = [op |-> "compressDisabled"]
            /\ UNCHANGED <<originalFile, compressedFile, originalImageUrl,
                           compressedImageUrl, compressionLevel, customQuality,
                           isCompressing, error, appState, pending, blobUrls,
                           lastDownload>>
       ELSE /\ lastEvent' = [op |-> "compress"]
            /\ IF originalFile = Null
               THEN UNCHANGED <<isCompressing, error, pending>>
               ELSE /\ isCompressing' = TRUE
                    /\ error' = NoError
                    /\ pending' = Append(pending,
                                    [file |-> originalFile,
                                     options |-> compressionCallOptions])
            /\ UNCHANGED <<originalFile, compressedFile, originalImageUrl,
                           compressedImageUrl, compressionLevel, customQuality,
                           appState, blobUrls, lastDownload>>

\* the sequence without its i-th element
RemoveAt(seq, i) ==
    [j \in 1..(Len(seq) - 1) |-> IF j < i THEN seq[j] ELSE seq[j + 1]]

\* the payload the collaborator returns for a call: a new blob of some size
compressedPayload(call, size) ==
    [name |-> call.file.name, type |-> call.file.type, size |-> size]

\* CompressResolve without the finally block (line 94)
CompressResolve_keepsCompressing(i, size) ==
    /\ i \in DOMAIN pending
    /\ Len(blobUrls) < MaxUrls
    /\ LET compressed == compressedPayload(pending[i], size)
           c == createObjectURL(blobUrls, compressed)
       IN  /\ compressedFile' = compressed
           /\ compressedImageUrl' = c.url
           /\ blobUrls' = c.store
    /\ appState' = "done"
    /\ pending' = RemoveAt(pending, i)
    /\ lastEvent' = [op |-> "resolve"]
    /\ UNCHANGED <<originalFile, originalImageUrl, compressionLevel,
                   customQuality, isCompressing, error, lastDownload>>

\* CompressResolve without setCompressedImageUrl (line 87)
CompressResolve_forgetsUrl(i, size) ==
    /\ i \in DOMAIN pending
    /\ Len(blobUrls) < MaxUrls
    /\ compressedFile' = compressedPayload(pending[i], size)
    /\ appState' = "done"
    /\ isCompressing' = FALSE
    /\ pending' = RemoveAt(pending, i)
    /\ lastEvent' = [op |-> "resolve"]
    /\ UNCHANGED <<originalFile, originalImageUrl, compressedImageUrl,
                   compressionLevel, customQuality, error, blobUrls,
                   lastDownload>>

\* lines 85-88 and 94: the awaited call fulfils
CompressResolve(i, size) ==
    /\ i \in DOMAIN pending
    /\ Len(blobUrls) < MaxUrls
    /\ LET compressed == compressedPayload(pending[i], size)
           c == createObjectURL(blobUrls, compressed)
       IN  /\ compressedFile' = compressed
           /\ compressedImageUrl' = c.url
           /\ blobUrls' = c.store
    /\ appState' = "done"
    /\ isCompressing' = FALSE
    /\ pending' = RemoveAt(pending, i)
    /\ lastEvent' = [op |-> "resolve"]
    /\ UNCHANGED <<originalFile, originalImageUrl, compressionLevel,
                   customQuality, error, lastDownload>>

\* CompressReject without the finally block (line 94)
CompressReject_noFinally(i) ==
    /\ i \in DOMAIN pending
    /\ error' = CompressionFailureMessage
    /\ appState' = "upload"
    /\ pending' = RemoveAt(pending, i)
    /\ lastEvent' = [op |-> "reject"]
    /\ UNCHANGED <<originalFile, compressedFile, originalImageUrl,
                   compressedImageUrl, compressionLevel, customQuality,
                   isCompressing, blobUrls, lastDownload>>

\* CompressReject that resets the session as handleReset does
CompressReject_fullReset(i) ==
    /\ i \in DOMAIN pending
    /\ blobUrls' = revokeObjectURL(blobUrls, originalImageUrl)
    /\ originalFile' = Null
    /\ originalImageUrl' = NoUrl
    /\ compressionLevel' = "Medium"
    /\ customQuality' = 70
    /\ error' = CompressionFailureMessage
    /\ appState' = "upload"
    /\ isCompressing' = FALSE
    /\ pending' = RemoveAt(pending, i)
    /\ lastEvent' = [op |-> "reject"]
    /\ UNCHANGED <<compressedFile, compressedImageUrl, lastDownload>>

\* CompressReject without setAppState('upload') (line 92)
CompressReject_staysInCompressing(i) ==
    /\ i \in DOMAIN pending
    /\ error' = CompressionFailureMessage
    /\ isCompressing' = FALSE
    /\ pending' = RemoveAt(pending, i)
    /\ lastEvent' = [op |-> "reject"]
    /\ UNCHANGED <<originalFile, compressedFile, originalImageUrl,
                   compressedImageUrl, compressionLevel, customQuality,
                   appState, blobUrls, lastDownload>>

\* lines 89-94: the awaited call rejects
CompressReject(i) ==
    /\ i \in DOMAIN pending
    /\ error' = CompressionFailureMessage
    /\ appState' = "upload"
    /\ isCompressing' = FALSE
    /\ pending' = RemoveAt(pending, i)
    /\ lastEvent' = [op |-> "reject"]
    /\ UNCHANGED <<originalFile, compressedFile, originalImageUrl,
                   compressedImageUrl, compressionLevel, customQuality,
                   blobUrls, lastDownload>>

----------------------------------------------------------------------------
(* The done view: download and reset *)

\* what the browser fetches from a blob URL: the blob, unless it was revoked
fetchBlob(url) ==
    IF url \in DOMAIN blobUrls /\ blobUrls[url].revoked = 0
    THEN blobUrls[url].blob
    ELSE Null

\* handleDownload whose link points at the original image's URL
handleDownload_originalUrl ==
    /\ appState = "done"
    /\ lastEvent' = [op |-> "download"]
    /\ IF compressedFile = Null \/ originalFile = Null
       THEN UNCHANGED lastDownload
       ELSE lastDownload' = << [name    |-> "compressed-" \o originalFile.name,
                                href    |-> originalImageUrl,
                                content |-> fetchBlob(originalImageUrl)] >>
    /\ UNCHANGED <<originalFile, compressedFile, originalImageUrl,
                   compressedImageUrl, compressionLevel, customQuality,
                   isCompressing, error, appState, pending, blobUrls>>

\* lines 98-106; originalFile.name of a null originalFile throws a TypeError
\* before the link is made
handleDownload ==
    /\ appState = "done"
    /\ lastEvent' = [op |-> "download"]
    /\ IF compressedFile = Null \/ originalFile = Null
       THEN UNCHANGED lastDownload
       ELSE lastDownload' = << [name    |-> "compressed-" \o originalFile.name,
                                href    |-> compressedImageUrl,
                                content |-> fetchBlob(compressedImageUrl)] >>
    /\ UNCHANGED <<originalFile, compressedFile, originalImageUrl,
                   compressedImageUrl, compressionLevel, customQuality,
                   isCompressing, error, appState, pending, blobUrls>>

\* handleReset without setCustomQuality(70) (line 116)
handleReset_keepsCustomQuality ==
    /\ appState = "done"
    /\ blobUrls' = revokeObjectURL(revokeObjectURL(blobUrls, originalImageUrl),
                                   compressedImageUrl)
    /\ originalFile' = Null
    /\ compressedFile' = Null
    /\ originalImageUrl' = NoUrl
    /\ compressedImageUrl' = NoUrl
    /\ compressionLevel' = "Medium"
    /\ error' = NoError
    /\ appState' = "upload"
    /\ lastEvent' = [op |-> "reset"]
    /\ UNCHANGED <<customQuality, isCompressing, pending, lastDownload>>

\* lines 108-122; fileInputRef.current is null in the done view, where the
\* file input is not mounted
handleReset ==
    /\ appState = "done"
    /\ blobUrls' = revokeObjectURL(revokeObjectURL(blobUrls, originalImageUrl),
                                   compressedImageUrl)
    /\ originalFile' = Null
    /\ compressedFile' = Null
    /\ originalImageUrl' = NoUrl
    /\ compressedImageUrl' = NoUrl
    /\ compressionLevel' = "Medium"
    /\ customQuality' = 70
    /\ error' = NoError
    /\ appState' = "upload"
    /\ lastEvent' = [op |-> "reset"]
    /\ UNCHANGED <<isCompressing, pending, lastDownload>>

----------------------------------------------------------------------------
(* The savings display of the done view, lines 250-251 *)

\* Math.floor in place of Math.round
MathRound_floor(n, d) ==
    n \div d

\* Math.round: the nearest integer to n / d (d > 0), a half rounding up
MathRound(n, d) ==
    (2 * n + d) \div (2 * d)

savedBytes ==
    originalFile.size - compressedFile.size

savedPercent ==
    MathRound(savedBytes * 100, originalFile.size)

----------------------------------------------------------------------------
(* formatBytes, lines 18-25. Every call passes one argument, so decimals   *)
(* is 2 and dm is 2. bytes / Math.pow(k, i) is exact in a double (k^i is a *)
(* power of two), toFixed rounds that exact value to hundredths with a     *)
(* half going up, and parseFloat followed by + ' ' writes the number       *)
(* without trailing zeros. Math.floor(Math.log(bytes) / Math.log(k)) is    *)
(* the whole-number logarithm: the floating-point quotient is exact at     *)
(* 1024, 1024^2, 1024^3 and 1024^4 and not within rounding distance of a   *)
(* whole number elsewhere below 1024^4. Byte counts of the model stay     *)
(* below 2^31, the integers of TLC.                                        *)

\* Math.pow(k, i) with k = 1024
RECURSIVE PowK(_)
PowK(i) ==
    IF i = 0 THEN 1 ELSE 1024 * PowK(i - 1)

\* formatBytesIndex that takes the unit one step too late (<= for <)
RECURSIVE formatBytesIndex_late(_)
formatBytesIndex_late(bytes) ==
    IF bytes <= 1024 THEN 0 ELSE 1 + formatBytesIndex_late(bytes \div 1024)

\* Math.floor(Math.log(bytes) / Math.log(k)), line 23, for bytes >= 1
RECURSIVE formatBytesIndex(_)
formatBytesIndex(bytes) ==
    IF bytes < 1024 THEN 0 ELSE 1 + formatBytesIndex(bytes \div 1024)

\* (n / d).toFixed(2), as a number of hundredths, for n >= 0 and d a power
\* of 1024: 100 * (n div d) plus the remainder's hundredths, where t is
\* the whole part of 200 * r / d and (t + 1) div 2 rounds r / d to hundredths
\* with a half going up. t is taken in two steps so that no intermediate
\* number exceeds TLC's 32-bit integers.
toFixed2(n, d) ==
    LET q == n \div d
        r == n % d
        t == IF d = 1 THEN 0
             ELSE (200 * (r \div 1024) + (200 * (r % 1024)) \div 1024)
                      \div (d \div 1024)
    IN  100 * q + (t + 1) \div 2

\* parseFloat(text) + '' for the text of toFixed(2): h hundredths written
\* without trailing zeros
numberText(h) ==
    LET whole == h \div 100
        frac  == h % 100
    IN  IF frac = 0 THEN ToString(whole)
        ELSE IF frac % 10 = 0 THEN ToString(whole) \o "." \o ToString(frac \div 10)
        ELSE IF frac < 10 THEN ToString(whole) \o ".0" \o ToString(frac)
        ELSE ToString(whole) \o "." \o ToString(frac)

\* sizes[i], line 22; undefined beyond the four names
sizesAt(i) ==
    CASE i = 0 -> "Bytes"
      [] i = 1 -> "KB"
      [] i = 2 -> "MB"
      [] i = 3 -> "GB"
      [] OTHER -> "undefined"

\* lines 18-25; Math.log of a negative number is NaN, and so are i, the
\* quotient and the parsed number, and sizes[NaN] is undefined
formatBytes(bytes) ==
    IF bytes = 0 THEN "0 Bytes"
    ELSE IF bytes < 0 THEN "NaN undefined"
    ELSE LET i == formatBytesIndex(bytes)
         IN  numberText(toFixed2(bytes, PowK(i))) \o " " \o sizesAt(i)

\* the size shown under the original image, lines 170 and 240
originalSizeText ==
    formatBytes(originalFile.size)

\* the numbers handed to formatBytes by the view on screen: line 170 in the
\* compressing view, lines 240, 245 and 250 in the done view
formatBytesArgs ==
    CASE appState = "compressing" /\ originalFile # Null ->
             {originalFile.size}
      [] appState = "done" /\ originalFile # Null /\ compressedFile # Null ->
             {originalFile.size, compressedFile.size, savedBytes}
      [] OTHER -> {}

----------------------------------------------------------------------------

Next ==
    \/ \E file \in FileInputs : handleFileChange(file)
    \/ \E level \in Levels : setCompressionLevel(level)
    \/ \E value \in SliderValues : setCustomQuality(value)
    \/ handleCompress
    \/ \E i \in DOMAIN pending, size \in OutSizes : CompressResolve(i, size)
    \/ \E i \in DOMAIN pending : CompressReject(i)
    \/ handleDownload
    \/ handleReset

Spec == Init /\ [][Next]_vars

\* the collaborator settles a call: the awaited promise fulfils or rejects
CollaboratorSettles ==
    \/ \E i \in DOMAIN pending, size \in OutSizes : CompressResolve(i, size)
    \/ \E i \in DOMAIN pending : CompressReject(i)

\* the session with a collaborator that settles every call in the end
LiveSpec == Init /\ [][Next]_vars /\ WF_vars(CollaboratorSettles)

----------------------------------------------------------------------------
(* The parameter mapper on every input: the compressing view with a file   *)
(* chosen, any level (the four of the buttons and one the switch does not  *)
(* list) and any slider position, from which the compress button is        *)
(* pressed.                                                                *)

MapperLevels == Levels \cup {"Ultra"}

MapperInit ==
    /\ originalFile = [name |-> "photo.jpg", type |-> "image/jpeg", size |-> 2097152]
    /\ compressedFile = Null
    /\ originalImageUrl = 1
    /\ compressedImageUrl = NoUrl
    /\ compressionLevel \in MapperLevels
    /\ customQuality \in 1..100
    /\ isCompressing = FALSE
    /\ error = NoError
    /\ appState = "compressing"
    /\ pending = <<>>
    /\ blobUrls = << [blob |-> originalFile, revoked |-> 0] >>
    /\ lastDownload = <<>>
    /\ lastEvent = [op |-> "fileChange", file |-> originalFile]

MapperNext ==
    handleCompress

MapperSpec == MapperInit /\ [][MapperNext]_vars

----------------------------------------------------------------------------
(* The byte formatter on a range of inputs: files of every size of         *)
(* FormatSizes are selected in the upload view, and the compressing view   *)
(* shows formatBytes of the size.                                          *)

\* byte counts: the small ones, the neighbours of each unit's threshold,
\* counts whose hundredths end in a half, and the largest count below 2^31
FormatSizes ==
    (0..60)
    \cup {1000, 1023, 1024, 1025, 1029, 1030, 1034, 1035, 1075, 1126, 1127,
          1152, 1500, 1536, 2047, 2048, 10240, 10342, 102400, 150000,
          1047552, 1048063, 1048064, 1048570, 1048571, 1048575}
    \cup {1048576, 1048577, 1179648, 1572864, 2097152, 5242880, 9999999,
          10000000, 104857600, 1073736580, 1073736581, 1073736582,
          1073741823}
    \cup {1073741824, 1073741825, 1079110533, 1079110534, 1084479242,
          1610612736, 2147483647}

FormatFiles ==
    { [name |-> "image.png", type |-> "image/png", size |-> b] : b \in FormatSizes }

FormatNext ==
    \E file \in FormatFiles : handleFileChange(file)

FormatSpec == Init /\ [][FormatNext]_vars

----------------------------------------------------------------------------
(* Claims *)

\* C1: in every reachable state compressedFile and compressedImageUrl are
\* both present when appState is 'done' and both absent otherwise (in the
\* upload and compressing views, also with a call in flight or after a
\* failed compression).
C1_CompressedIffDone ==
    IF appState = "done"
    THEN compressedFile # Null /\ compressedImageUrl # NoUrl
    ELSE compressedFile = Null /\ compressedImageUrl = NoUrl

\* a result shown after an earlier attempt of the session had failed
C1_Witness ==
    /\ appState = "done"
    /\ compressedFile # Null
    /\ compressedImageUrl = 3
    /\ blobUrls[1].revoked = 0

\* C2: a file selection of a type other than image/jpeg, image/png and
\* image/webp (or of no file) leaves the upload view in place, sets error to
\* the validation message and changes nothing else; a selection of one of the
\* three types stores the file and a URL for it, clears error and shows the
\* compressing view.
C2_FileSelection ==
    [][ lastEvent'.op = "fileChange" =>
          LET f == lastEvent'.file
          IN  /\ appState = "upload"
              /\ IF f # Null /\ f.type \in {"image/jpeg", "image/png", "image/webp"}
                 THEN /\ appState' = "compressing"
                      /\ originalFile' = f
                      /\ originalImageUrl' \in DOMAIN blobUrls'
                      /\ originalImageUrl' \notin DOMAIN blobUrls
                      /\ blobUrls'[originalImageUrl'] = [blob |-> f, revoked |-> 0]
                      /\ error' = ""
                 ELSE /\ appState' = "upload"
                      /\ error' = ValidationMessage
                      /\ error' # ""
                      /\ UNCHANGED <<originalFile, compressedFile, originalImageUrl,
                                     compressedImageUrl, compressionLevel,
                                     customQuality, isCompressing>>
                      /\ UNCHANGED <<pending, blobUrls, lastDownload>>
      ]_vars

\* a PDF was refused while the file of a failed compression is still held
C2_Witness ==
    /\ lastEvent.op = "fileChange"
    /\ lastEvent.file # Null
    /\ lastEvent.file.type = "application/pdf"
    /\ appState = "upload"
    /\ error = ValidationMessage
    /\ originalFile # Null

\* C3: pressing the compress button while isCompressing is true starts no
\* call of the collaborator and changes no session field.
C3_CompressWhileBusyIsNoOp ==
    [][ (isCompressing /\ lastEvent'.op \in {"compress", "compressDisabled"}) =>
          /\ pending' = pending
          /\ Len(pending') = 1
          /\ UNCHANGED <<originalFile, compressedFile, originalImageUrl,
                         compressedImageUrl, compressionLevel, customQuality,
                         isCompressing, error, appState>>
          /\ UNCHANGED <<blobUrls, lastDownload>>
      ]_vars

\* the button was pressed with one call in flight
C3_Witness ==
    /\ lastEvent.op = "compressDisabled"
    /\ isCompressing
    /\ Len(pending) = 1

\* C4: right after a reset the session references no URL and every URL
\* created so far has been revoked exactly once.
C4_AllUrlsReleasedAfterReset ==
    lastEvent.op = "reset" =>
        /\ originalImageUrl = NoUrl
        /\ compressedImageUrl = NoUrl
        /\ \A u \in DOMAIN blobUrls : blobUrls[u].revoked = 1

\* C5: after the collaborator's call rejects, the upload view is shown,
\* error is the compression-failure message and there is no compressed file
\* or URL, whatever the level.
C5_FailureReturnsToUpload ==
    lastEvent.op = "reject" =>
        /\ appState = "upload"
        /\ error = CompressionFailureMessage
        /\ compressedFile = Null
        /\ compressedImageUrl = NoUrl
        /\ ~isCompressing

\* a failure under the Custom level at slider position 35
C5_Witness ==
    /\ lastEvent.op = "reject"
    /\ compressionLevel = "Custom"
    /\ customQuality = 35
    /\ error = CompressionFailureMessage

\* C6: reset, pressed in the done view, revokes the original and the
\* compressed URL and leaves the session as it was constructed: no files, no
\* URLs, level Medium, quality 70, no error, the upload view.
C6_ResetRestoresInitialSession ==
    [][ lastEvent'.op = "reset" =>
          /\ appState = "done"
          /\ originalImageUrl \in DOMAIN blobUrls
          /\ compressedImageUrl \in DOMAIN blobUrls
          /\ originalImageUrl # compressedImageUrl
          /\ \A u \in DOMAIN blobUrls :
                blobUrls'[u].revoked =
                    blobUrls[u].revoked
                    + (IF u \in {originalImageUrl, compressedImageUrl} THEN 1 ELSE 0)
          /\ DOMAIN blobUrls' = DOMAIN blobUrls
          /\ originalFile' = Null
          /\ compressedFile' = Null
          /\ originalImageUrl' = 0
          /\ compressedImageUrl' = 0
          /\ compressionLevel' = "Medium"
          /\ customQuality' = 70
          /\ isCompressing' = FALSE
          /\ error' = ""
          /\ appState' = "upload"
      ]_vars

\* the second reset of a session
C6_Witness ==
    /\ lastEvent.op = "reset"
    /\ Len(blobUrls) = 4
    /\ \A u \in DOMAIN blobUrls : blobUrls[u].revoked = 1

\* C7: the options of a call of the collaborator are, for the level and the
\* slider position at the press of the compress button: Low -> 1.0 MB and
\* 0.8, Medium -> 0.5 and 0.6, High -> 0.1 and 0.4, Custom -> 2.0 and
\* customQuality / 100, any other level -> the Medium pair; only Custom
\* reads customQuality (maxSizeMB in tenths, initialQuality in hundredths).
C7_MapperTable ==
    /\ lastEvent.op = "compress" => Len(pending) = 1
    /\ \A i \in DOMAIN pending :
          LET o == pending[i].options
              expected ==
                  IF compressionLevel = "Low" THEN <<10, 80>>
                  ELSE IF compressionLevel = "Medium" THEN <<5, 60>>
                  ELSE IF compressionLevel = "High" THEN <<1, 40>>
                  ELSE IF compressionLevel = "Custom" THEN <<20, customQuality>>
                  ELSE <<5, 60>>
          IN  /\ <<o.maxSizeMB, o.initialQuality>> = expected
              /\ o.useWebWorker = TRUE
              /\ pending[i].file = originalFile

\* a call made with a level the switch does not list
C7_Witness ==
    /\ compressionLevel \notin Levels
    /\ customQuality = 35
    /\ Len(pending) = 1
    /\ pending[1].options.maxSizeMB = 5
    /\ pending[1].options.initialQuality = 60

\* C8: a change of level or of slider position in the compressing view, also
\* with a call in flight, changes compressionLevel or customQuality and
\* nothing else: files, URLs, view, isCompressing, error, the URL store and
\* the calls in flight stay as they are.
C8_PresetChangeFrame ==
    [][ ( \/ lastEvent'.op \in {"setCompressionLevel", "setCustomQuality"}
          \/ /\ appState = "compressing"
             /\ \/ compressionLevel' # compressionLevel
                \/ customQuality' # customQuality ) =>
          /\ appState = "compressing"
          /\ UNCHANGED <<originalFile, originalImageUrl, compressedFile,
                         compressedImageUrl, appState, isCompressing, error>>
          /\ UNCHANGED <<blobUrls, pending, lastDownload>>
          /\ compressionLevel' \in {"Low", "Medium", "High", "Custom"}
          /\ customQuality' \in 1..100
      ]_vars

\* the slider was moved while a call made under another level is in flight
C8_Witness ==
    /\ lastEvent.op = "setCustomQuality"
    /\ customQuality = 35
    /\ isCompressing
    /\ Len(pending) = 1
    /\ pending[1].options.maxSizeMB = 1

\* C9: download changes no session field and revokes nothing; with a
\* compressed file present it saves that file under the name
\* compressed-<originalFile.name>.
C9_DownloadFrame ==
    [][ lastEvent'.op = "download" =>
          /\ UNCHANGED <<originalFile, compressedFile, originalImageUrl,
                         compressedImageUrl, compressionLevel, customQuality,
                         isCompressing, error, appState>>
          /\ UNCHANGED <<blobUrls, pending>>
          /\ IF compressedFile # Null
             THEN /\ Len(lastDownload') = 1
                  /\ lastDownload'[1].name = "compressed-" \o originalFile.name
                  /\ lastDownload'[1].content = compressedFile
             ELSE UNCHANGED lastDownload
      ]_vars

\* the second result of a session was downloaded
C9_Witness ==
    /\ lastEvent.op = "download"
    /\ Len(lastDownload) = 1
    /\ lastDownload[1].name = "compressed-logo.png"
    /\ lastDownload[1].content.size = 199
    /\ lastDownload[1].href = 4

\* C10: in the done view the saved bytes are originalFile.size -
\* compressedFile.size and the percentage is the integer nearest to
\* saved / originalFile.size * 100 (a half rounding up); 2,097,152 bytes
\* compressed to 150,000 give 1,947,152 bytes and 93 percent.
C10_SavingsDisplay ==
    appState = "done" =>
        LET orig == originalFile.size
            comp == compressedFile.size
            p    == savedPercent
        IN  /\ savedBytes + comp = orig
            /\ 2 * p * orig - orig <= 200 * (orig - comp)
            /\ 200 * (orig - comp) < 2 * p * orig + orig
            /\ (orig = 2097152 /\ comp = 150000) =>
                   (savedBytes = 1947152 /\ p = 93)

\* the 2,097,152-byte JPEG compressed under High to 150,000 bytes
C10_Witness ==
    /\ appState = "done"
    /\ originalFile.size = 2097152
    /\ originalFile.type = "image/jpeg"
    /\ compressedFile.size = 150000
    /\ compressionLevel = "High"
    /\ savedBytes = 1947152
    /\ savedPercent = 93

\* C11: formatBytes gives "0 Bytes" for 0 and, for b >= 1, the unit i of
\* (Bytes, KB, MB, GB) with 1024^i <= b < 1024^(i+1) and the number
\* b / 1024^i rounded to hundredths, written without trailing zeros; 1024
\* gives "1 KB", 1536 "1.5 KB" and 1048576 "1 MB".
C11_FormatBytes ==
    appState = "compressing" =>
        LET b    == originalFile.size
            text == originalSizeText
            unit == <<"Bytes", "KB", "MB", "GB">>
        IN  /\ b = 0 => text = "0 Bytes"
            /\ b = 1024 => text = "1 KB"
            /\ b = 1536 => text = "1.5 KB"
            /\ b = 1048576 => text = "1 MB"
            /\ b = 1 => text = "1 Bytes"
            /\ b = 1023 => text = "1023 Bytes"
            /\ b = 1075 => text = "1.05 KB"
            /\ b = 1152 => text = "1.13 KB"
            /\ b = 1048575 => text = "1024 KB"
            /\ b = 2097152 => text = "2 MB"
            /\ b = 150000 => text = "146.48 KB"
            /\ b = 1073736581 => text = "1023.99 MB"
            /\ b = 1073736582 => text = "1024 MB"
            /\ b = 1073741823 => text = "1024 MB"
            /\ b = 1073741824 => text = "1 GB"
            /\ b = 1079110533 => text = "1 GB"
            /\ b = 1079110534 => text = "1.01 GB"
            /\ b = 1610612736 => text = "1.5 GB"
            /\ b = 2147483647 => text = "2 GB"
            \* the unit: the largest i with 1024^i <= b
            /\ b >= 1 =>
                 \E i \in 0..3 :
                    LET d == IF i = 0 THEN 1
                             ELSE IF i = 1 THEN 1024
                             ELSE IF i = 2 THEN 1024 * 1024
                             ELSE 1024 * 1024 * 1024
                        n == Len(text) - Len(unit[i + 1])
                    IN  /\ d <= b
                        /\ b \div 1024 < d
                        /\ n >= 2
                        /\ SubSeq(text, n, Len(text)) = " " \o unit[i + 1]
            \* the number: b / 1024^i to the nearest hundredth
            /\ (1 <= b /\ b <= 10000000) =>
                 \E i \in 0..2 :
                    LET d == IF i = 0 THEN 1
                             ELSE IF i = 1 THEN 1024
                             ELSE 1024 * 1024
                    IN  /\ d <= b
                        /\ b < 1024 * d
                        /\ \E h \in ((100 * b) \div d)..((100 * b) \div d + 1) :
                              /\ 2 * h * d - d <= 200 * b
                              /\ 200 * b < 2 * h * d + d
                              /\ text =
                                   ToString(h \div 100)
                                   \o ( IF h % 100 = 0 THEN ""
                                        ELSE IF h % 10 = 0
                                        THEN "." \o ToString((h % 100) \div 10)
                                        ELSE "." \o ToString((h % 100) \div 10)
                                                 \o ToString(h % 10) )
                                   \o " " \o unit[i + 1]

\* a file of 1536 bytes is on screen as "1.5 KB"
C11_Witness ==
    /\ appState = "compressing"
    /\ originalFile.size = 1536
    /\ originalSizeText = "1.5 KB"

\* C12: in every step a URL variable that holds a live URL is only given
\* another value (a new URL or the empty string) if that step revokes the
\* URL it held.
C12_ReleasedBeforeOverwrite ==
    [][ /\ ( /\ originalImageUrl \in DOMAIN blobUrls
             /\ blobUrls[originalImageUrl].revoked = 0
             /\ originalImageUrl' # originalImageUrl ) =>
               blobUrls'[originalImageUrl].revoked = 1
        /\ ( /\ compressedImageUrl \in DOMAIN blobUrls
             /\ blobUrls[compressedImageUrl].revoked = 0
             /\ compressedImageUrl' # compressedImageUrl ) =>
               blobUrls'[compressedImageUrl].revoked = 1
      ]_vars

\* C13: in every reachable state at most one call of the collaborator is
\* in flight.
C13_AtMostOneCallInFlight ==
    Len(pending) <= 1

\* a second call of a session is in flight and the button was pressed again
C13_Witness ==
    /\ Len(pending) = 1
    /\ Len(blobUrls) = 3
    /\ lastEvent.op = "compressDisabled"

\* C14: isCompressing is true exactly while a call is in flight; it is
\* false at the start, in the upload and done views and right after the
\* call fulfils or rejects.
C14_IsCompressingIffInFlight ==
    /\ isCompressing <=> (Len(pending) >= 1)
    /\ appState \in {"upload", "done"} => ~isCompressing
    /\ lastEvent.op \in {"init", "resolve", "reject"} => ~isCompressing
    /\ lastEvent.op = "compress" => isCompressing

\* a call is in flight right after the button was pressed
C14_Witness ==
    /\ lastEvent.op = "compress"
    /\ isCompressing
    /\ Len(pending) = 1
    /\ appState = "compressing"

\* C15: every number the view hands to formatBytes is non-negative, the
\* saved bytes of the done view included.
C15_FormatBytesArgsNonNegative ==
    \A b \in formatBytesArgs : b >= 0

\* C16: error is empty in the compressing and done views; a message is only
\* ever shown in the upload view, where both failures end.
C16_ErrorOnlyInUpload ==
    /\ appState \in {"compressing", "done"} => error = ""
    /\ error # "" =>
          /\ appState = "upload"
          /\ error \in {ValidationMessage, CompressionFailureMessage}
    /\ lastEvent.op \in {"resolve", "reset"} => error = ""

\* a file was selected again after a failed compression
C16_Witness ==
    /\ appState = "compressing"
    /\ error = ""
    /\ lastEvent.op = "fileChange"
    /\ Len(blobUrls) = 2
    /\ blobUrls[1].revoked = 0

\* C17: the view at the start is upload and it changes only from upload to
\* compressing by a selection of an accepted file, from compressing to done
\* when the call in flight fulfils, from compressing to upload when it
\* rejects, and from done to upload by reset; a call starts only at a press
\* of the compress button in the compressing view, and none is in flight
\* after a rejection.
C17_PhaseTransitions ==
    /\ appState = "upload"
    /\ [][ /\ appState' # appState =>
                \/ /\ appState = "upload" /\ appState' = "compressing"
                   /\ lastEvent'.op = "fileChange"
                   /\ lastEvent'.file # Null
                   /\ lastEvent'.file.type \in {"image/jpeg", "image/png", "image/webp"}
                \/ /\ appState = "compressing" /\ appState' = "done"
                   /\ lastEvent'.op = "resolve"
                   /\ Len(pending) = 1 /\ pending' = <<>>
                \/ /\ appState = "compressing" /\ appState' = "upload"
                   /\ lastEvent'.op = "reject"
                   /\ Len(pending) = 1 /\ pending' = <<>>
                \/ /\ appState = "done" /\ appState' = "upload"
                   /\ lastEvent'.op = "reset"
           /\ lastEvent'.op = "resolve" => appState' = "done"
           /\ lastEvent'.op = "reject" => (appState' = "upload" /\ pending' = <<>>)
           /\ Len(pending') > Len(pending) =>
                (appState = "compressing" /\ lastEvent'.op = "compress")
         ]_vars

\* a failure, a new selection, a success and a reset have taken place
C17_Witness ==
    /\ lastEvent.op = "reset"
    /\ appState = "upload"
    /\ Len(blobUrls) = 3
    /\ blobUrls[1].revoked = 0

\* C18: while a call is in flight and does not settle, the view stays
\* compressing, isCompressing stays true and originalFile stays the same;
\* the step that settles it ends with isCompressing false in the done or the
\* upload view; and with a collaborator that settles every call, a state
\* with isCompressing true leads to one with isCompressing false and the
\* view done or upload.
C18_RunsToCompletion ==
    /\ [][ /\ (isCompressing /\ pending' = pending) =>
                /\ appState = "compressing" /\ appState' = "compressing"
                /\ isCompressing'
                /\ originalFile' = originalFile
           /\ (isCompressing /\ pending' # pending) =>
                /\ lastEvent'.op \in {"resolve", "reject"}
                /\ ~isCompressing'
                /\ pending' = <<>>
                /\ lastEvent'.op = "resolve" => appState' = "done"
                /\ lastEvent'.op = "reject" => appState' = "upload"
         ]_vars
    /\ isCompressing ~> (~isCompressing /\ appState \in {"done", "upload"})

\* a call made under Low has fulfilled
C18_Witness ==
    /\ lastEvent.op = "resolve"
    /\ ~isCompressing
    /\ appState = "done"
    /\ compressionLevel = "Low"
    /\ pending = <<>>

\* C19: the step in which the call rejects changes the view, error and
\* isCompressing only: originalFile, its URL (not revoked), the level and
\* the slider position stay, so the upload view can hold a file.
C19_FailureKeepsOriginal ==
    [][ lastEvent'.op = "reject" =>
          /\ UNCHANGED <<originalFile, originalImageUrl, compressionLevel,
                         customQuality, compressedFile, compressedImageUrl>>
          /\ UNCHANGED <<blobUrls, lastDownload>>
          /\ originalFile' # Null
          /\ originalImageUrl' \in DOMAIN blobUrls'
          /\ blobUrls'[originalImageUrl'].revoked = 0
          /\ appState' = "upload"
      ]_vars

\* the upload view after a failure under High, the file still held
C19_Witness ==
    /\ lastEvent.op = "reject"
    /\ appState = "upload"
    /\ originalFile # Null
    /\ originalImageUrl # NoUrl
    /\ compressionLevel = "High"

\* C20: in the compressing and done views originalFile and its URL are
\* present, so a press of the enabled compress button always starts a call
\* and a download always has its name.
C20_OriginalPresentOutsideUpload ==
    /\ appState \in {"compressing", "done"} =>
          /\ originalFile # Null
          /\ originalImageUrl \in DOMAIN blobUrls
          /\ blobUrls[originalImageUrl].blob = originalFile
    /\ lastEvent.op = "compress" => (isCompressing /\ Len(pending) = 1)
    /\ lastEvent.op = "download" =>
          /\ Len(lastDownload) = 1
          /\ lastDownload[1].name = "compressed-" \o originalFile.name

\* the result for tiny.webp was downloaded
C20_Witness ==
    /\ lastEvent.op = "download"
    /\ appState = "done"
    /\ originalFile # Null
    /\ lastDownload[1].name = "compressed-tiny.webp"

====
